---- MODULE Spec2Model ----
(***************************************************************************)
(* A model of cedar-policy-core's PolicySet (ast/policy_set.rs): the two   *)
(* co-dependent maps `templates` and `links`, and the operations that      *)
(* insert into them (add, add_static, add_template, link).                 *)
(*                                                                         *)
(* Every operation is a pure operator from the maps and the arguments to   *)
(* the maps after the call and the value returned; the actions apply the   *)
(* operators to arguments drawn from small sets and record the call, its   *)
(* result and the maps as they were before the call.                       *)
(***************************************************************************)
EXTENDS Naturals, FiniteSets, Sequences, TLC

VARIABLES templates, links, call, res, templates0, links0, statics

vars == <<templates, links, call, res, templates0, links0, statics>>

----------------------------------------------------------------------------
(* Bounds of the model *)

\* number of distinct PolicyIDs in use
NumIds == 3

\* calls are made on sets that hold fewer than MaxEntries map entries
MaxEntries == 3

----------------------------------------------------------------------------
(* Values *)

PolicyIDs == 1..NumIds

\* SlotId is a closed enumeration: ?principal and ?resource
SlotIds == {"principal", "resource"}

\* what a template says besides its id and its slots (effect, constraints, condition)
Bodies == {"permit", "forbid"}

EntityUIDs == {"test1", "test2"}

\* a map with no entry (HashMap::new())
EmptyMap == [x \in {} |-> x]

Template == [id : PolicyIDs, body : Bodies, slots : SUBSET SlotIds]

SlotEnvs == UNION {[S -> EntityUIDs] : S \in SUBSET SlotIds}

\* a Policy holds its own id, its template (shared, compared by content) and its
\* environment; every Policy value binds exactly the slots of its template
Policy == {p \in [id : PolicyIDs, template : Template, env : SlotEnvs] :
              DOMAIN p.env = p.template.slots}

\* a StaticPolicy is a body without slots under an id
StaticPolicy == [id : PolicyIDs, body : Bodies]

----------------------------------------------------------------------------
(* Results *)

Ok == [kind |-> "Ok"]

OkRef(p) == [kind |-> "Ok", policy |-> p]

Occupied(i) == [kind |-> "Occupied", id |-> i]

NoSuchTemplate(i) == [kind |-> "NoSuchTemplate", id |-> i]

PolicyIdConflict(i) == [kind |-> "PolicyIdConflict", id |-> i]

SlotMismatch == [kind |-> "SlotMismatch"]

IsOk(r) == r.kind = "Ok"

----------------------------------------------------------------------------
(* HashMap helpers *)

\* VacantEntry::insert
Insert(m, k, v) == [x \in (DOMAIN m) \cup {k} |-> IF x = k THEN v ELSE m[x]]

\* the values of a map as a collection with multiplicities (HashMap::values)
Values(m) ==
    LET rng == {m[k] : k \in DOMAIN m}
    IN  [v \in rng |-> Cardinality({k \in DOMAIN m : m[k] = v})]

\* the number of elements an iterator yields (Iterator::count)
Count(b) ==
    LET RECURSIVE Sum(_)
        Sum(S) == IF S = {} THEN 0
                  ELSE LET x == CHOOSE y \in S : TRUE IN b[x] + Sum(S \ {x})
    IN  Sum(DOMAIN b)

\* the state after a call and the value the call returned
Outcome(ts, ls, r) == [templates |-> ts, links |-> ls, res |-> r]

----------------------------------------------------------------------------
(* The linking primitives (ast/policy.rs) *)

\* Template::link: the environment must bind exactly the slots of the template
TemplateLink(t, new_id, values) ==
    IF DOMAIN values = t.slots
    THEN OkRef([id |-> new_id, template |-> t, env |-> values])
    ELSE SlotMismatch

\* Template::link_static_policy: a zero-slot template and its one link, both
\* under the id of the static policy
link_static_policy(sp) ==
    LET t == [id |-> sp.id, body |-> sp.body, slots |-> {}]
    IN  <<t, [id |-> sp.id, template |-> t, env |-> EmptyMap]>>

\* Policy::is_static
is_static(p) == DOMAIN p.env = {}

----------------------------------------------------------------------------
(* Queries *)

policies(ls) == Values(ls)

all_templates(ts) == Values(ts)

\* Option<T> as a set with at most one element
get_template(ts, id) == IF id \in DOMAIN ts THEN {ts[id]} ELSE {}

get(ls, id) == IF id \in DOMAIN ls THEN {ls[id]} ELSE {}

static_policies(ls) ==
    LET b == policies(ls)
    IN  [p \in {q \in DOMAIN b : is_static(q)} |-> b[p]]

\* templates(), without the filter on the slots
templates_unfiltered(ts) == all_templates(ts)

\* templates(): the stored templates that have slots
templates_with_slots(ts) ==
    LET b == all_templates(ts)
    IN  [t \in {u \in DOMAIN b : u.slots # {}} |-> b[t]]

\* is_empty, looking at links only
is_empty_links_only(ts, ls) == DOMAIN ls = {}

\* is_empty: both maps are empty
is_empty(ts, ls) == DOMAIN ts = {} /\ DOMAIN ls = {}

----------------------------------------------------------------------------
(* Mutations *)

\* add, without the comparison of the stored template with the policy's
add_unchecked_template(ts, ls, policy) ==
    LET t == policy.template
    IN  IF policy.id \in DOMAIN ls
        THEN Outcome(ts, ls, Occupied(policy.id))
        ELSE Outcome(IF t.id \in DOMAIN ts THEN ts ELSE Insert(ts, t.id, t),
                     Insert(ls, policy.id, policy),
                     Ok)

\* add, inserting the template as soon as its entry is found vacant
add_eager_template(ts, ls, policy) ==
    LET t == policy.template
    IN  IF t.id \in DOMAIN ts /\ ts[t.id] # t
        THEN Outcome(ts, ls, Occupied(t.id))
        ELSE LET ts1 == IF t.id \in DOMAIN ts THEN ts ELSE Insert(ts, t.id, t)
             IN  IF policy.id \in DOMAIN ls
                 THEN Outcome(ts1, ls, Occupied(policy.id))
                 ELSE Outcome(ts1, Insert(ls, policy.id, policy), Ok)

\* add, looking at the links entry before the templates entry
add_link_first(ts, ls, policy) ==
    LET t == policy.template
    IN  IF policy.id \in DOMAIN ls
        THEN Outcome(ts, ls, Occupied(policy.id))
        ELSE IF t.id \in DOMAIN ts /\ ts[t.id] # t
        THEN Outcome(ts, ls, Occupied(t.id))
        ELSE Outcome(IF t.id \in DOMAIN ts THEN ts ELSE Insert(ts, t.id, t),
                     Insert(ls, policy.id, policy),
                     Ok)

\* add, treating the link like the template: an identical stored link is no error
add_idempotent_link(ts, ls, policy) ==
    LET t == policy.template
    IN  IF t.id \in DOMAIN ts /\ ts[t.id] # t
        THEN Outcome(ts, ls, Occupied(t.id))
        ELSE IF policy.id \in DOMAIN ls /\ ls[policy.id] # policy
        THEN Outcome(ts, ls, Occupied(policy.id))
        ELSE Outcome(IF t.id \in DOMAIN ts THEN ts ELSE Insert(ts, t.id, t),
                     Insert(ls, policy.id, policy),
                     Ok)

\* add, naming the template in the error of an occupied links entry
add_blaming_template(ts, ls, policy) ==
    LET t == policy.template
    IN  IF t.id \in DOMAIN ts /\ ts[t.id] # t
        THEN Outcome(ts, ls, Occupied(t.id))
        ELSE IF policy.id \in DOMAIN ls
        THEN Outcome(ts, ls, Occupied(t.id))
        ELSE Outcome(IF t.id \in DOMAIN ts THEN ts ELSE Insert(ts, t.id, t),
                     Insert(ls, policy.id, policy),
                     Ok)

\* add, treating the template like the link: any occupied entry is an error
add_strict_template(ts, ls, policy) ==
    LET t == policy.template
    IN  IF t.id \in DOMAIN ts
        THEN Outcome(ts, ls, Occupied(t.id))
        ELSE IF policy.id \in DOMAIN ls
        THEN Outcome(ts, ls, Occupied(policy.id))
        ELSE Outcome(Insert(ts, t.id, t), Insert(ls, policy.id, policy), Ok)

\* add, never inserting into templates
add_forget_template(ts, ls, policy) ==
    LET t == policy.template
    IN  IF t.id \in DOMAIN ts /\ ts[t.id] # t
        THEN Outcome(ts, ls, Occupied(t.id))
        ELSE IF policy.id \in DOMAIN ls
        THEN Outcome(ts, ls, Occupied(policy.id))
        ELSE Outcome(ts, Insert(ls, policy.id, policy), Ok)

add(ts, ls, policy) ==
    LET t == policy.template
    IN  IF t.id \in DOMAIN ts /\ ts[t.id] # t
        THEN Outcome(ts, ls, Occupied(t.id))
        ELSE IF policy.id \in DOMAIN ls
        THEN Outcome(ts, ls, Occupied(policy.id))
        ELSE Outcome(IF t.id \in DOMAIN ts THEN ts ELSE Insert(ts, t.id, t),
                     Insert(ls, policy.id, policy),
                     Ok)

\* add_static, looking at the templates entry only
add_static_templates_only(ts, ls, policy) ==
    LET tp == link_static_policy(policy)
        t  == tp[1]
        p  == tp[2]
    IN  IF t.id \notin DOMAIN ts
        THEN Outcome(Insert(ts, t.id, t), Insert(ls, t.id, p), Ok)
        ELSE Outcome(ts, ls, Occupied(t.id))

add_static(ts, ls, policy) ==
    LET tp == link_static_policy(policy)
        t  == tp[1]
        p  == tp[2]
    IN  IF t.id \notin DOMAIN ts /\ t.id \notin DOMAIN ls
        THEN Outcome(Insert(ts, t.id, t), Insert(ls, t.id, p), Ok)
        ELSE Outcome(ts, ls, Occupied(t.id))

\* add_template with HashMap::insert in place of the entry check
add_template_overwrite(ts, ls, t) ==
    Outcome(Insert(ts, t.id, t), ls, Ok)

\* add_template, accepting a template that is stored already with the same content
add_template_idempotent(ts, ls, t) ==
    IF t.id \in DOMAIN ts /\ ts[t.id] # t
    THEN Outcome(ts, ls, Occupied(t.id))
    ELSE Outcome(Insert(ts, t.id, t), ls, Ok)

add_template(ts, ls, t) ==
    IF t.id \in DOMAIN ts
    THEN Outcome(ts, ls, Occupied(t.id))
    ELSE Outcome(Insert(ts, t.id, t), ls, Ok)

\* link, finding the template through an existing link when templates has no entry
link_through_links(ts, ls, template_id, new_id, values) ==
    IF get_template(ts, template_id) = {} /\ get(ls, template_id) = {}
    THEN Outcome(ts, ls, NoSuchTemplate(template_id))
    ELSE LET t == IF template_id \in DOMAIN ts THEN ts[template_id]
                  ELSE ls[template_id].template
             r == TemplateLink(t, new_id, values)
         IN  IF ~IsOk(r)
             THEN Outcome(ts, ls, r)
             ELSE IF new_id \notin DOMAIN ls /\ new_id \notin DOMAIN ts
             THEN Outcome(ts, Insert(ls, new_id, r.policy), OkRef(r.policy))
             ELSE Outcome(ts, ls, PolicyIdConflict(new_id))

\* link, requiring only the links entry to be vacant
link_links_only(ts, ls, template_id, new_id, values) ==
    IF get_template(ts, template_id) = {}
    THEN Outcome(ts, ls, NoSuchTemplate(template_id))
    ELSE LET r == TemplateLink(ts[template_id], new_id, values)
         IN  IF ~IsOk(r)
             THEN Outcome(ts, ls, r)
             ELSE IF new_id \notin DOMAIN ls
             THEN Outcome(ts, Insert(ls, new_id, r.policy), OkRef(r.policy))
             ELSE Outcome(ts, ls, PolicyIdConflict(new_id))

\* link, looking for an id conflict before it looks the template up
link_conflict_before_lookup(ts, ls, template_id, new_id, values) ==
    IF new_id \in DOMAIN ls \/ new_id \in DOMAIN ts
    THEN Outcome(ts, ls, PolicyIdConflict(new_id))
    ELSE IF get_template(ts, template_id) = {}
    THEN Outcome(ts, ls, NoSuchTemplate(template_id))
    ELSE LET r == TemplateLink(ts[template_id], new_id, values)
         IN  IF ~IsOk(r)
             THEN Outcome(ts, ls, r)
             ELSE Outcome(ts, Insert(ls, new_id, r.policy), OkRef(r.policy))

\* link, looking for an id conflict before it links the template
link_conflict_first(ts, ls, template_id, new_id, values) ==
    IF get_template(ts, template_id) = {}
    THEN Outcome(ts, ls, NoSuchTemplate(template_id))
    ELSE IF new_id \in DOMAIN ls \/ new_id \in DOMAIN ts
    THEN Outcome(ts, ls, PolicyIdConflict(new_id))
    ELSE LET r == TemplateLink(ts[template_id], new_id, values)
         IN  IF ~IsOk(r)
             THEN Outcome(ts, ls, r)
             ELSE Outcome(ts, Insert(ls, new_id, r.policy), OkRef(r.policy))

\* link, returning the new policy without storing it
link_no_insert(ts, ls, template_id, new_id, values) ==
    IF get_template(ts, template_id) = {}
    THEN Outcome(ts, ls, NoSuchTemplate(template_id))
    ELSE LET r == TemplateLink(ts[template_id], new_id, values)
         IN  IF ~IsOk(r)
             THEN Outcome(ts, ls, r)
             ELSE IF new_id \notin DOMAIN ls /\ new_id \notin DOMAIN ts
             THEN Outcome(ts, ls, OkRef(r.policy))
             ELSE Outcome(ts, ls, PolicyIdConflict(new_id))

\* link, storing the template once more under the id of the new link
link_copying_template(ts, ls, template_id, new_id, values) ==
    IF get_template(ts, template_id) = {}
    THEN Outcome(ts, ls, NoSuchTemplate(template_id))
    ELSE LET r == TemplateLink(ts[template_id], new_id, values)
         IN  IF ~IsOk(r)
             THEN Outcome(ts, ls, r)
             ELSE IF new_id \notin DOMAIN ls /\ new_id \notin DOMAIN ts
             THEN Outcome(Insert(ts, new_id, ts[template_id]),
                          Insert(ls, new_id, r.policy), OkRef(r.policy))
             ELSE Outcome(ts, ls, PolicyIdConflict(new_id))

\* link with HashMap::insert in place of the two entry checks
link_overwrite(ts, ls, template_id, new_id, values) ==
    IF get_template(ts, template_id) = {}
    THEN Outcome(ts, ls, NoSuchTemplate(template_id))
    ELSE LET r == TemplateLink(ts[template_id], new_id, values)
         IN  IF ~IsOk(r)
             THEN Outcome(ts, ls, r)
             ELSE Outcome(ts, Insert(ls, new_id, r.policy), OkRef(r.policy))

\* link, not propagating the error of Template::link
link_unvalidated(ts, ls, template_id, new_id, values) ==
    IF get_template(ts, template_id) = {}
    THEN Outcome(ts, ls, NoSuchTemplate(template_id))
    ELSE LET r == [id |-> new_id, template |-> ts[template_id], env |-> values]
         IN  IF new_id \notin DOMAIN ls /\ new_id \notin DOMAIN ts
             THEN Outcome(ts, Insert(ls, new_id, r), OkRef(r))
             ELSE Outcome(ts, ls, PolicyIdConflict(new_id))

link(ts, ls, template_id, new_id, values) ==
    IF get_template(ts, template_id) = {}
    THEN Outcome(ts, ls, NoSuchTemplate(template_id))
    ELSE LET r == TemplateLink(ts[template_id], new_id, values)
         IN  IF ~IsOk(r)
             THEN Outcome(ts, ls, r)
             ELSE IF new_id \notin DOMAIN ls /\ new_id \notin DOMAIN ts
             THEN Outcome(ts, Insert(ls, new_id, r.policy), OkRef(r.policy))
             ELSE Outcome(ts, ls, PolicyIdConflict(new_id))

\* try_from_iter, going on with the next policy after a failed add
try_from_iter_skipping(iter) ==
    LET RECURSIVE loop(_, _, _)
        loop(ts, ls, rest) ==
            IF rest = <<>>
            THEN Outcome(ts, ls, Ok)
            ELSE LET o == add(ts, ls, Head(rest))
                 IN  loop(o.templates, o.links, Tail(rest))
    IN  loop(EmptyMap, EmptyMap, iter)

\* `set` starts as new(); `set.add(p)?` for every p of the iterator returns the
\* first error, and with it nothing of the set built so far; Ok(set) at the end
\* try_from_iter, a later template replacing a stored one of the same id
try_from_iter_overwriting(iter) ==
    LET RECURSIVE loop(_, _, _)
        loop(ts, ls, rest) ==
            IF rest = <<>>
            THEN Outcome(ts, ls, Ok)
            ELSE LET p == Head(rest)
                 IN  IF p.id \in DOMAIN ls
                     THEN Outcome(EmptyMap, EmptyMap, Occupied(p.id))
                     ELSE loop(Insert(ts, p.template.id, p.template),
                               Insert(ls, p.id, p), Tail(rest))
    IN  loop(EmptyMap, EmptyMap, iter)

try_from_iter(iter) ==
    LET RECURSIVE loop(_, _, _)
        loop(ts, ls, rest) ==
            IF rest = <<>>
            THEN Outcome(ts, ls, Ok)
            ELSE LET o == add(ts, ls, Head(rest))
                 IN  IF ~IsOk(o.res)
                     THEN Outcome(EmptyMap, EmptyMap, o.res)
                     ELSE loop(o.templates, o.links, Tail(rest))
    IN  loop(EmptyMap, EmptyMap, iter)

----------------------------------------------------------------------------
(* LiteralPolicySet and reification *)

ReificationError(i) == [kind |-> "ReificationError", id |-> i]

\* Policy -> LiteralPolicy: the template is replaced by its id
literal_policy(p) == [template_id |-> p.template.id, values |-> p.env, id |-> p.id]

\* LiteralPolicy::reify: the template is looked up under template_id
reify(literal, ts) ==
    IF literal.template_id \in DOMAIN ts
    THEN OkRef([id |-> literal.id, template |-> ts[literal.template_id],
                env |-> literal.values])
    ELSE ReificationError(literal.template_id)

\* From<PolicySet> for LiteralPolicySet, leaving the links out
from_without_links(ts, ls) == [templates |-> ts, links |-> EmptyMap]

\* From<PolicySet> for LiteralPolicySet: both maps entry by entry, under the same keys
from(ts, ls) ==
    [templates |-> ts,
     links     |-> [id \in DOMAIN ls |-> literal_policy(ls[id])]]

\* TryFrom<LiteralPolicySet>, dropping the links that do not resolve
try_from_resolvable(pset) ==
    LET ts == pset.templates
        ok == {id \in DOMAIN pset.links : IsOk(reify(pset.links[id], ts))}
    IN  {Outcome(ts, [id \in ok |-> reify(pset.links[id], ts).policy], Ok)}

\* TryFrom<LiteralPolicySet> for PolicySet: the outcomes the call can have. The
\* links are reified in the iteration order of a HashMap and collected into a
\* Result, so the error is that of whichever failing link comes first.
try_from(pset) ==
    LET ts      == pset.templates
        failing == {id \in DOMAIN pset.links : ~IsOk(reify(pset.links[id], ts))}
    IN  IF failing = {}
        THEN {Outcome(ts, [id \in DOMAIN pset.links |-> reify(pset.links[id], ts).policy], Ok)}
        ELSE {Outcome(EmptyMap, EmptyMap, reify(pset.links[id], ts)) : id \in failing}

----------------------------------------------------------------------------
(* The state machine: a PolicySet and the calls made on it *)

Size(ts, ls) == Cardinality(DOMAIN ts) + Cardinality(DOMAIN ls)

\* PolicySet::new()
Init ==
    /\ templates = EmptyMap
    /\ links = EmptyMap
    /\ call = [op |-> "new"]
    /\ res = Ok
    /\ templates0 = EmptyMap
    /\ links0 = EmptyMap
    /\ statics = {}

\* the caller holds no result: it is free to make the next call
Idle == call.op \in {"new", "none"}

\* the effect of a call whose outcome is o
Apply(c, o) ==
    /\ templates' = o.templates
    /\ links' = o.links
    /\ call' = c
    /\ res' = o.res
    /\ templates0' = templates
    /\ links0' = links

\* A PolicyID is only hashed and compared, so a set and its call are the same up to
\* a renaming of ids. The ids of a call that are new to the set are therefore taken
\* in order: the ids of the set and of the call are 1..n. A successful call stores
\* every id it names, a failed one stores none, so the ids of the set stay 1..n.
InOrder(ids) ==
    LET known == DOMAIN templates \cup DOMAIN links \cup ids
    IN  known = 1..Cardinality(known)

Add ==
    /\ Idle
    /\ Size(templates, links) < MaxEntries
    /\ \E p \in Policy :
          /\ InOrder({p.id, p.template.id})
          /\ Apply([op |-> "add", policy |-> p], add(templates, links, p))
    /\ UNCHANGED statics

AddStatic ==
    /\ Idle
    /\ Size(templates, links) < MaxEntries
    /\ \E sp \in StaticPolicy :
          LET o == add_static(templates, links, sp)
          IN  /\ InOrder({sp.id})
              /\ Apply([op |-> "add_static", policy |-> sp], o)
              /\ statics' = IF IsOk(o.res) THEN statics \cup {sp} ELSE statics

AddTemplate ==
    /\ Idle
    /\ Size(templates, links) < MaxEntries
    /\ \E t \in Template :
          /\ InOrder({t.id})
          /\ Apply([op |-> "add_template", template |-> t],
                   add_template(templates, links, t))
    /\ UNCHANGED statics

Link ==
    /\ Idle
    /\ Size(templates, links) < MaxEntries
    /\ \E tid \in PolicyIDs, nid \in PolicyIDs, env \in SlotEnvs :
          /\ InOrder({tid, nid})
          /\ Apply([op |-> "link", template_id |-> tid, new_id |-> nid, values |-> env],
                   link(templates, links, tid, nid, env))
    /\ UNCHANGED statics

\* the caller has looked at the Result of its call and lets go of it
DropResult ==
    /\ ~Idle
    /\ call' = [op |-> "none"]
    /\ res' = Ok
    /\ templates0' = templates
    /\ links0' = links
    /\ UNCHANGED <<templates, links, statics>>

Next == Add \/ AddStatic \/ AddTemplate \/ Link \/ DropResult

Spec == Init /\ [][Next]_vars

----------------------------------------------------------------------------
(* try_from_iter: a PolicySet collected from an iterator of policies *)

\* the ids used by the policies an iterator yields
NumIterIds == 2

\* an iterator yields at most MaxIterLen policies
MaxIterLen == 3

\* the policies an iterator yields: links of templates with a principal slot
IterPolicy ==
    {p \in Policy : /\ p.id \in 1..NumIterIds
                    /\ p.template.id \in 1..NumIterIds
                    /\ p.template.slots = {"principal"}
                    /\ p.env["principal"] = "test1"}

InitIter ==
    /\ \E n \in 0..MaxIterLen : \E iter \in [1..n -> IterPolicy] :
          call = [op |-> "iter", iter |-> iter]
    /\ templates = EmptyMap
    /\ links = EmptyMap
    /\ res = Ok
    /\ templates0 = EmptyMap
    /\ links0 = EmptyMap
    /\ statics = {}

\* the caller receives Ok(set), held in templates and links, or the error alone
TryFromIter ==
    /\ call.op = "iter"
    /\ LET o == try_from_iter(call.iter)
       IN  /\ templates' = o.templates
           /\ links' = o.links
           /\ res' = o.res
    /\ call' = [op |-> "try_from_iter", iter |-> call.iter]
    /\ UNCHANGED <<templates0, links0, statics>>

NextIter == TryFromIter

SpecIter == InitIter /\ [][NextIter]_vars

----------------------------------------------------------------------------
(* Reification of a deserialized LiteralPolicySet *)

\* the ids used as keys and inside the entries of a literal set
NumLitIds == 2

\* a literal set holds at most MaxLitEntries map entries
MaxLitEntries == 3

LitIds == 1..NumLitIds

\* the templates and links of a literal set: no relation is required between a
\* key and the id inside its entry, nor between a link and the templates
LitTemplate ==
    {t \in Template : t.id \in LitIds /\ t.body = "permit" /\ t.slots \subseteq {"principal"}}

LiteralPolicy ==
    [template_id : LitIds, values : {EmptyMap} \cup [{"principal"} -> {"test1"}],
     id : LitIds]

\* the maps with at most n keys, all in K, and values in V
MapsUpTo(K, V, n) == UNION {[S -> V] : S \in {T \in SUBSET K : Cardinality(T) <= n}}

\* a deserialized LiteralPolicySet: any two such maps
InitReify ==
    /\ \E ts \in MapsUpTo(LitIds, LitTemplate, MaxLitEntries) :
       \E ls \in MapsUpTo(LitIds, LiteralPolicy, MaxLitEntries - Cardinality(DOMAIN ts)) :
          call = [op |-> "literal", pset |-> [templates |-> ts, links |-> ls]]
    /\ templates = EmptyMap
    /\ links = EmptyMap
    /\ res = Ok
    /\ templates0 = EmptyMap
    /\ links0 = EmptyMap
    /\ statics = {}

\* the caller receives Ok(set), held in templates and links, or the error alone
TryFrom ==
    /\ call.op = "literal"
    /\ \E o \in try_from(call.pset) :
          /\ templates' = o.templates
          /\ links' = o.links
          /\ res' = o.res
    /\ call' = [op |-> "try_from", pset |-> call.pset]
    /\ UNCHANGED <<templates0, links0, statics>>

NextReify == TryFrom

SpecReify == InitReify /\ [][NextReify]_vars

----------------------------------------------------------------------------
(* Template filtering: add_template, add_static and link on larger sets *)

\* the calls of this specification are made on sets of fewer entries than this
MaxFilterEntries == 4

FilterAddTemplate ==
    /\ Idle
    /\ Size(templates, links) < MaxFilterEntries
    /\ \E t \in Template :
          /\ InOrder({t.id})
          /\ Apply([op |-> "add_template", template |-> t],
                   add_template(templates, links, t))
    /\ UNCHANGED statics

FilterAddStatic ==
    /\ Idle
    /\ Size(templates, links) < MaxFilterEntries
    /\ \E sp \in StaticPolicy :
          LET o == add_static(templates, links, sp)
          IN  /\ InOrder({sp.id})
              /\ Apply([op |-> "add_static", policy |-> sp], o)
              /\ statics' = IF IsOk(o.res) THEN statics \cup {sp} ELSE statics

FilterLink ==
    /\ Idle
    /\ Size(templates, links) < MaxFilterEntries
    /\ \E tid \in PolicyIDs, nid \in PolicyIDs, env \in SlotEnvs :
          /\ InOrder({tid, nid})
          /\ Apply([op |-> "link", template_id |-> tid, new_id |-> nid, values |-> env],
                   link(templates, links, tid, nid, env))
    /\ UNCHANGED statics

NextFilter == FilterAddTemplate \/ FilterAddStatic \/ FilterLink \/ DropResult

SpecFilter == Init /\ [][NextFilter]_vars

----------------------------------------------------------------------------
(* Properties *)

\* the maps are as they were before the call
Untouched == templates = templates0 /\ links = links0

\* all four queries answer after the call as they did before it
SameAnswers ==
    /\ policies(links) = policies(links0)
    /\ all_templates(templates) = all_templates(templates0)
    /\ \A id \in PolicyIDs :
          /\ get(links, id) = get(links0, id)
          /\ get_template(templates, id) = get_template(templates0, id)

\* C1: in every reachable state, the template of every link is stored in
\* templates under its own id, with the same content.
C1_LinkedTemplatesStored ==
    \A id \in DOMAIN links :
        LET t == links[id].template
        IN  /\ t.id \in DOMAIN templates
            /\ templates[t.id] = t

\* a failed call on a set that holds a link of a slotted template under another id
C1_Witness ==
    /\ ~Idle /\ ~IsOk(res)
    /\ \E id \in DOMAIN links :
          /\ links[id].template.id # id
          /\ links[id].template.slots # {}
          /\ templates[links[id].template.id] = links[id].template

\* C2: a call of add, add_static, add_template or link that returns an error
\* leaves both maps as they were: policies(), all_templates(), get(id) and
\* get_template(id) answer as before the call.
C2_ErrorsAreAtomic ==
    (call.op \in {"add", "add_static", "add_template", "link"} /\ ~IsOk(res))
        => (Untouched /\ SameAnswers)

\* add fails on its link id while the template of the policy is not stored
C2_Witness ==
    /\ call.op = "add"
    /\ res = Occupied(call.policy.id)
    /\ call.policy.template.id \notin DOMAIN templates0
    /\ Untouched

\* C3: add(p) returns Occupied{p.template().id()} whenever templates holds that
\* id with other content, also when p.id() is a key of links; nothing is inserted.
C3_TemplateConflictFirst ==
    (/\ call.op = "add"
     /\ call.policy.template.id \in DOMAIN templates0
     /\ templates0[call.policy.template.id] # call.policy.template)
        => (res = Occupied(call.policy.template.id) /\ Untouched)

\* both the template id and the (different) link id of the policy are taken
C3_Witness ==
    /\ call.op = "add"
    /\ call.policy.template.id \in DOMAIN templates0
    /\ templates0[call.policy.template.id] # call.policy.template
    /\ call.policy.id \in DOMAIN links0
    /\ call.policy.id # call.policy.template.id
    /\ res = Occupied(call.policy.template.id)

\* the template check of add passes: vacant, or occupied with the same content
TemplateCheckPasses(ts, policy) ==
    policy.template.id \in DOMAIN ts => ts[policy.template.id] = policy.template

\* C4: add(p) returns Occupied{p.id()} whenever the template check passes and
\* p.id() is a key of links, whether or not the stored link equals p; the stored
\* link is not replaced.
C4_LinkNeverIdempotent ==
    (/\ call.op = "add"
     /\ TemplateCheckPasses(templates0, call.policy)
     /\ call.policy.id \in DOMAIN links0)
        => (res = Occupied(call.policy.id) /\ Untouched)

\* add(p) on a set that holds exactly p under p.id()
C4_Witness ==
    /\ call.op = "add"
    /\ call.policy.id \in DOMAIN links0
    /\ links0[call.policy.id] = call.policy
    /\ res = Occupied(call.policy.id)
    /\ links[call.policy.id] = call.policy

\* C5: after a successful add(p), get(p.id()) is p and
\* get_template(p.template().id()) is p's template; the template entry is new
\* if its id was vacant and is left as it was otherwise; no other entry changes.
C5_AddCommits ==
    (call.op = "add" /\ IsOk(res)) =>
        LET p == call.policy
            t == call.policy.template
        IN  /\ get(links, p.id) = {p}
            /\ get_template(templates, t.id) = {t}
            /\ get(links0, p.id) = {}
            /\ get_template(templates0, t.id) \in {{}, {t}}
            /\ (t.id \in DOMAIN templates0 => templates = templates0)
            /\ \A id \in PolicyIDs :
                  /\ id # p.id => get(links, id) = get(links0, id)
                  /\ id # t.id => get_template(templates, id) = get_template(templates0, id)

\* add introduces a slotted template that was not stored, next to other entries
C5_Witness ==
    /\ call.op = "add" /\ IsOk(res)
    /\ call.policy.template.id \notin DOMAIN templates0
    /\ call.policy.template.slots # {}
    /\ DOMAIN templates0 # {}
    /\ templates[call.policy.template.id] = call.policy.template
    /\ links[call.policy.id] = call.policy

\* C6: add_static(p) fails with Occupied{p.id()} exactly when p.id() is a key of
\* templates or of links, and succeeds otherwise; on failure no map changes.
C6_AddStaticNeedsBothVacant ==
    call.op = "add_static" =>
        LET taken == \/ call.policy.id \in DOMAIN templates0
                     \/ call.policy.id \in DOMAIN links0
        IN  /\ taken => (res = Occupied(call.policy.id) /\ Untouched)
            /\ ~taken => IsOk(res)
            /\ res \in {Ok, Occupied(call.policy.id)}

\* add_static fails on an id that only the links map holds
C6_Witness ==
    /\ call.op = "add_static"
    /\ call.policy.id \in DOMAIN links0
    /\ call.policy.id \notin DOMAIN templates0
    /\ res = Occupied(call.policy.id)

\* C7: once add_static(p) has succeeded, in every later state get_template(p.id())
\* is p's zero-slot template, get(p.id()) is the link with empty env and that
\* template, and static_policies() yields a policy with id p.id(): neither
\* companion entry is removed or replaced.
C7_StaticDuality ==
    \A sp \in statics :
        LET t == link_static_policy(sp)[1]
            p == link_static_policy(sp)[2]
        IN  /\ get_template(templates, sp.id) = {t}
            /\ t.slots = {}
            /\ get(links, sp.id) = {p}
            /\ p.env = EmptyMap
            /\ p.template = templates[sp.id]
            /\ \E q \in DOMAIN static_policies(links) : q.id = sp.id

\* after a static policy, add has stored a link together with its slotted template
C7_Witness ==
    /\ statics # {}
    /\ call.op = "add" /\ IsOk(res)
    /\ call.policy.template.slots # {}
    /\ call.policy.template.id \notin DOMAIN templates0
    /\ \E sp \in statics : sp.id \in DOMAIN templates0 /\ sp.id \in DOMAIN links0

\* C8: add_template(t) succeeds exactly when t.id() is not a key of templates and
\* fails with Occupied{t.id()} otherwise; on success templates gains t.id() -> t
\* and links is unchanged.
C8_AddTemplate ==
    call.op = "add_template" =>
        LET t == call.template
        IN  /\ IsOk(res) <=> t.id \notin DOMAIN templates0
            /\ ~IsOk(res) => (res = Occupied(t.id) /\ Untouched)
            /\ IsOk(res) =>
                  /\ templates = Insert(templates0, t.id, t)
                  /\ DOMAIN templates = DOMAIN templates0 \cup {t.id}
                  /\ \A id \in DOMAIN templates0 : templates[id] = templates0[id]
                  /\ links = links0
                  /\ get(links, t.id) = get(links0, t.id)

\* add_template of a template that is stored with the very same content
C8_Witness ==
    /\ call.op = "add_template"
    /\ call.template.id \in DOMAIN templates0
    /\ templates0[call.template.id] = call.template
    /\ res = Occupied(call.template.id)

\* env binds exactly the slots of the template stored under tid
EnvMatches(ts, tid, env) == DOMAIN env = ts[tid].slots

\* C9: link(template_id, new_id, env) fails with NoSuchTemplate{template_id}
\* whenever template_id is not a key of templates (a link under that id does not
\* count) and leaves the set unchanged; once a template is stored under that id,
\* the call with a matching env and a free new_id succeeds.
C9_NoSuchTemplate ==
    call.op = "link" =>
        /\ call.template_id \notin DOMAIN templates0
              => (res = NoSuchTemplate(call.template_id) /\ Untouched)
        /\ (/\ call.template_id \in DOMAIN templates0
            /\ EnvMatches(templates0, call.template_id, call.values)
            /\ call.new_id \notin DOMAIN links0
            /\ call.new_id \notin DOMAIN templates0)
              => IsOk(res)

\* link names an id that is a key of links but not of templates
C9_Witness ==
    /\ call.op = "link"
    /\ call.template_id \in DOMAIN links0
    /\ call.template_id \notin DOMAIN templates0
    /\ res = NoSuchTemplate(call.template_id)

\* C10: link with a stored template and a matching env fails with
\* PolicyIdConflict{new_id} whenever new_id is a key of links or of templates;
\* nothing is inserted or overwritten.
C10_PolicyIdConflict ==
    (/\ call.op = "link"
     /\ call.template_id \in DOMAIN templates0
     /\ EnvMatches(templates0, call.template_id, call.values)
     /\ (call.new_id \in DOMAIN links0 \/ call.new_id \in DOMAIN templates0))
        => (res = PolicyIdConflict(call.new_id) /\ Untouched)

\* new_id is the id of a bare template: a key of templates, not of links
C10_Witness ==
    /\ call.op = "link"
    /\ call.template_id \in DOMAIN templates0
    /\ EnvMatches(templates0, call.template_id, call.values)
    /\ call.new_id \in DOMAIN templates0
    /\ call.new_id \notin DOMAIN links0
    /\ call.new_id # call.template_id
    /\ res = PolicyIdConflict(call.new_id)

\* C11: link(template_id, new_id, env) with a stored template fails with the
\* slot-mismatch error of the linking primitive whenever the keys of env are not
\* exactly the slots of the template, and leaves both maps unchanged.
C11_SlotMismatch ==
    (/\ call.op = "link"
     /\ call.template_id \in DOMAIN templates0
     /\ ~EnvMatches(templates0, call.template_id, call.values))
        => (res = SlotMismatch /\ Untouched)

\* env has a superfluous binding and new_id is taken as well
C11_Witness ==
    /\ call.op = "link"
    /\ call.template_id \in DOMAIN templates0
    /\ templates0[call.template_id].slots # DOMAIN call.values
    /\ templates0[call.template_id].slots \subseteq DOMAIN call.values
    /\ call.new_id \in DOMAIN links0
    /\ res = SlotMismatch

\* C12: when link(template_id, new_id, env) succeeds, the policy returned is the
\* policy stored: get(new_id) has id new_id, the template get_template(template_id)
\* and the env passed in; links gains exactly that entry, templates is unchanged.
C12_LinkCommits ==
    (call.op = "link" /\ IsOk(res)) =>
        /\ get(links, call.new_id) = {res.policy}
        /\ res.policy.id = call.new_id
        /\ get_template(templates, call.template_id) = {res.policy.template}
        /\ res.policy.env = call.values
        /\ call.new_id \notin DOMAIN links0
        /\ DOMAIN links = DOMAIN links0 \cup {call.new_id}
        /\ \A id \in DOMAIN links0 : links[id] = links0[id]
        /\ templates = templates0

\* a second link of a two-slot template
C12_Witness ==
    /\ call.op = "link" /\ IsOk(res)
    /\ DOMAIN call.values = SlotIds
    /\ links0 # EmptyMap
    /\ links[call.new_id].env = call.values
    /\ links[call.new_id].template.id = call.template_id

\* the set a caller holds after new() and add(iter[1]), ..., add(iter[k]), each
\* called whatever the calls before it returned
RECURSIVE AfterAdds(_, _)
AfterAdds(iter, k) ==
    IF k = 0
    THEN [templates |-> EmptyMap, links |-> EmptyMap]
    ELSE LET s == AfterAdds(iter, k - 1)
             o == add(s.templates, s.links, iter[k])
         IN  [templates |-> o.templates, links |-> o.links]

\* what the k-th of these calls returns
AddResult(iter, k) ==
    LET s == AfterAdds(iter, k - 1)
    IN  add(s.templates, s.links, iter[k]).res

\* C13: try_from_iter(ps) is equivalent to calling add on each element of ps in
\* order starting from new(): it returns the resulting set when every add
\* succeeds, and otherwise the error of the first failing add and no set.
C13_TryFromIterFoldsAdd ==
    call.op = "try_from_iter" =>
        LET iter    == call.iter
            failing == {k \in 1..Len(iter) : ~IsOk(AddResult(iter, k))}
        IN  IF failing = {}
            THEN /\ res = Ok
                 /\ templates = AfterAdds(iter, Len(iter)).templates
                 /\ links = AfterAdds(iter, Len(iter)).links
            ELSE LET first == CHOOSE k \in failing : \A j \in failing : k <= j
                 IN  /\ res = AddResult(iter, first)
                     /\ templates = EmptyMap
                     /\ links = EmptyMap

\* the second add fails and the third one, called all the same, succeeds
C13_Witness ==
    /\ call.op = "try_from_iter"
    /\ Len(call.iter) = 3
    /\ ~IsOk(AddResult(call.iter, 2))
    /\ IsOk(AddResult(call.iter, 3))
    /\ res = AddResult(call.iter, 2)
    /\ links = EmptyMap

\* the keys of the links of a literal set whose template_id is no key of its templates
Dangling(pset) ==
    {id \in DOMAIN pset.links : pset.links[id].template_id \notin DOMAIN pset.templates}

\* C14: reifying a LiteralPolicySet fails with ReificationError naming the missing
\* id whenever some link of it has a template_id that is no key of its templates;
\* no PolicySet is produced, not even one with the links that resolve.
C14_DanglingLinkRejected ==
    (call.op = "try_from" /\ Dangling(call.pset) # {}) =>
        /\ \E id \in Dangling(call.pset) :
              res = ReificationError(call.pset.links[id].template_id)
        /\ templates = EmptyMap
        /\ links = EmptyMap

\* one link of the literal set resolves and another one does not
C14_Witness ==
    /\ call.op = "try_from"
    /\ Dangling(call.pset) # {}
    /\ Dangling(call.pset) # DOMAIN call.pset.links
    /\ res.kind = "ReificationError"
    /\ res.id \notin DOMAIN call.pset.templates

\* C15: for every PolicySet s reached through new, add, add_static, add_template
\* and link, converting s to a LiteralPolicySet and reifying it succeeds and gives
\* a set equal to s.
C15_RoundTrip ==
    \A o \in try_from(from(templates, links)) :
        /\ IsOk(o.res)
        /\ o.templates = templates
        /\ o.links = links

\* the set holds a static policy and a link of a slotted template
C15_Witness ==
    /\ \E id \in DOMAIN links : links[id].env # EmptyMap /\ links[id].template.id # id
    /\ \E id \in DOMAIN links : is_static(links[id])
    /\ Outcome(templates, links, Ok) \in try_from(from(templates, links))

\* C16: for every LiteralPolicySet on which reification succeeds, whatever its
\* keys and template bodies, the template of every link of the resulting
\* PolicySet is stored in templates under its own id with the same content.
C16_ReifiedSetMeetsInvariant ==
    (call.op = "try_from" /\ IsOk(res)) =>
        \A id \in DOMAIN links :
            /\ links[id].template.id \in DOMAIN templates
            /\ templates[links[id].template.id] = links[id].template

\* C17: the set only grows: an entry of templates or of links is still there,
\* with the same value, after any further call; stated for one call, from which
\* it follows for every sequence of calls.
C17_OnlyGrows ==
    /\ \A id \in DOMAIN templates0 :
          id \in DOMAIN templates /\ templates[id] = templates0[id]
    /\ \A id \in DOMAIN links0 :
          id \in DOMAIN links /\ links[id] = links0[id]

\* a call has added an entry to a set that held a template and a link
C17_Witness ==
    /\ ~Idle /\ IsOk(res)
    /\ templates0 # EmptyMap /\ links0 # EmptyMap
    /\ (DOMAIN templates # DOMAIN templates0 \/ DOMAIN links # DOMAIN links0)

\* C18: every policy that policies() yields binds exactly the slots of its
\* template, so that it is static if and only if its template has no slots.
C18_EnvBindsTheSlots ==
    \A p \in DOMAIN policies(links) :
        /\ DOMAIN p.env = p.template.slots
        /\ is_static(p) <=> p.template.slots = {}

\* link has stored a policy of a template with a resource slot next to another link
C18_Witness ==
    /\ call.op = "link" /\ IsOk(res)
    /\ res.policy.template.slots = {"resource"}
    /\ links0 # EmptyMap
    /\ res.policy \in DOMAIN policies(links)

\* the sum of two collections
Chain(a, b) ==
    [v \in DOMAIN a \cup DOMAIN b |->
        (IF v \in DOMAIN a THEN a[v] ELSE 0) + (IF v \in DOMAIN b THEN b[v] ELSE 0)]

\* the templates of the policies of a collection (.map(|p| p.template()))
TemplatesOf(b) ==
    [t \in {p.template : p \in DOMAIN b} |->
        Count([p \in {q \in DOMAIN b : q.template = t} |-> b[p]])]

\* C19: all_templates() equals, as a collection, templates() together with the
\* templates of static_policies(): every zero-slot template stored in templates
\* is the template of exactly one link.
C19_AllTemplatesSplit ==
    /\ all_templates(templates)
          = Chain(templates_with_slots(templates), TemplatesOf(static_policies(links)))
    /\ \A id \in DOMAIN templates :
          templates[id].slots = {} =>
              Cardinality({l \in DOMAIN links : links[l].template = templates[id]}) = 1

\* C20: an id that is a key of both templates and links is the id of the template
\* of that link: links[id].template().id() = id.
C20_SharedKeyIsOwnTemplate ==
    \A id \in DOMAIN templates \cap DOMAIN links : links[id].template.id = id

\* the keys of a map whose value passes a test
KeysWhere(m, Test(_)) == {k \in DOMAIN m : Test(m[k])}

\* a collection yields exactly the values a map holds under the keys ks, each as
\* often as it is held
YieldsExactly(b, m, ks) ==
    /\ DOMAIN b = {m[k] : k \in ks}
    /\ \A v \in DOMAIN b : b[v] = Cardinality({k \in ks : m[k] = v})

HasSlots(t) == t.slots # {}

EnvIsEmpty(p) == p.env = EmptyMap

\* the set of test::template_filtering before its link: one template with slots,
\* one static policy and its template
FilteringSet(ts, ls) ==
    /\ Cardinality(DOMAIN ts) = 2 /\ Cardinality(DOMAIN ls) = 1
    /\ \E t \in DOMAIN ts, s \in DOMAIN ts :
          /\ t # s /\ ts[t].slots # {}
          /\ DOMAIN ls = {s}
          /\ <<ts[s], ls[s]>> = link_static_policy([id |-> s, body |-> ts[s].body])

\* C21: templates() yields exactly the stored templates that have a slot and
\* static_policies() exactly the stored policies whose env is empty; on a set made
\* of one slotted template and one static policy all_templates() counts 2,
\* templates() 1, static_policies() 1 and policies() 1, and a successful link of
\* the slotted template raises policies() to 2 and leaves static_policies() at 1.
C21_Filtering ==
    /\ YieldsExactly(templates_with_slots(templates), templates,
                     KeysWhere(templates, HasSlots))
    /\ YieldsExactly(static_policies(links), links, KeysWhere(links, EnvIsEmpty))
    /\ FilteringSet(templates, links) =>
          /\ Count(all_templates(templates)) = 2
          /\ Count(templates_with_slots(templates)) = 1
          /\ Count(static_policies(links)) = 1
          /\ Count(policies(links)) = 1
    /\ (/\ call.op = "link" /\ IsOk(res)
        /\ FilteringSet(templates0, links0)
        /\ templates0[call.template_id].slots # {}) =>
          /\ Count(policies(links)) = 2
          /\ Count(static_policies(links)) = 1

\* the slotted template has been linked on the set of one slotted template and
\* one static policy
C21_Witness ==
    /\ call.op = "link" /\ IsOk(res)
    /\ FilteringSet(templates0, links0)
    /\ templates0[call.template_id].slots # {}
    /\ Count(all_templates(templates)) = 2
    /\ Count(policies(links)) = 2

\* C22: is_empty() is true exactly when both maps are empty: it is true for new(),
\* still true after a link on an empty set (which fails), false after every
\* successful add, add_static, add_template or link, and once false it is false
\* after every further call.
C22_IsEmpty ==
    /\ is_empty(templates, links) <=> (templates = EmptyMap /\ links = EmptyMap)
    /\ call.op = "new" => is_empty(templates, links)
    /\ (call.op = "link" /\ is_empty(templates0, links0)) =>
          (~IsOk(res) /\ is_empty(templates, links))
    /\ (call.op \in {"add", "add_static", "add_template", "link"} /\ IsOk(res)) =>
          ~is_empty(templates, links)
    /\ ~is_empty(templates0, links0) => ~is_empty(templates, links)

\* add_template has succeeded on the empty set: one template, no policy
C22_Witness ==
    /\ call.op = "add_template" /\ IsOk(res)
    /\ is_empty(templates0, links0)
    /\ ~is_empty(templates, links)
    /\ Count(templates_with_slots(templates)) = 1
    /\ Count(policies(links)) = 0

\* what a call adds to policies().count(): one for a successful add, add_static or
\* link, nothing otherwise
PoliciesAdded ==
    IF call.op \in {"add", "add_static", "link"} /\ IsOk(res) THEN 1 ELSE 0

\* C23: policies().count() is the number of successful add, add_static and link
\* calls made since new(): it is 0 for new() and every call raises it by one if
\* it is a successful add, add_static or link and leaves it alone otherwise. No
\* link call changes all_templates().count(): after a successful link the
\* template is stored exactly once, under template_id. A failed link on a link
\* id already in use leaves the env stored under that id as it was.
C23_Counts ==
    /\ call.op = "new" => Count(policies(links)) = 0
    /\ Count(policies(links)) = Count(policies(links0)) + PoliciesAdded
    /\ call.op = "link" =>
          /\ Count(all_templates(templates)) = Count(all_templates(templates0))
          /\ IsOk(res) =>
                {k \in DOMAIN templates : templates[k] = res.policy.template}
                    = {call.template_id}
          /\ (~IsOk(res) /\ call.new_id \in DOMAIN links0) =>
                /\ call.new_id \in DOMAIN links
                /\ links[call.new_id].env = links0[call.new_id].env

\* the second link of one template, with another env than the first: one template,
\* two policies
C23_Witness ==
    /\ call.op = "link" /\ IsOk(res)
    /\ \E l1 \in DOMAIN links0 :
          /\ links0[l1].template = res.policy.template
          /\ links0[l1].env # res.policy.env
    /\ Count(templates_with_slots(templates)) = 1
    /\ Count(policies(links)) = 2

\* C24: add(p) on a set that has no template under p.template().id() but has a
\* link under p.id() fails with Occupied{id = p.id()} and does not insert the
\* template: get_template(p.template().id()) is absent after the call as before.
C24_VacantTemplateNotInserted ==
    (/\ call.op = "add"
     /\ call.policy.template.id \notin DOMAIN templates0
     /\ call.policy.id \in DOMAIN links0) =>
        /\ res = Occupied(call.policy.id)
        /\ get_template(templates, call.policy.template.id) = {}

\* add of a policy of a new template under the id of a stored link, the two ids
\* being different
C24_Witness ==
    /\ call.op = "add"
    /\ call.policy.template.id \notin DOMAIN templates0
    /\ call.policy.id \in DOMAIN links0
    /\ call.policy.template.id # call.policy.id
    /\ res = Occupied(call.policy.id)
    /\ templates = templates0

\* C25: link checks its failure causes in a fixed order. The result is
\* NoSuchTemplate exactly when the template is missing, whatever new_id and env
\* are; it is the slot-mismatch error exactly when the template is stored and env
\* does not match its slots, whether or not new_id is in use; it is
\* PolicyIdConflict exactly when the template is stored, env matches and new_id is
\* in use.
C25_LinkErrorOrder ==
    call.op = "link" =>
        LET missing  == call.template_id \notin DOMAIN templates0
            mismatch == ~EnvMatches(templates0, call.template_id, call.values)
            taken    == call.new_id \in DOMAIN links0 \cup DOMAIN templates0
        IN  /\ res = NoSuchTemplate(call.template_id) <=> missing
            /\ res = SlotMismatch <=> (~missing /\ mismatch)
            /\ res = PolicyIdConflict(call.new_id)
                  <=> (~missing /\ ~mismatch /\ taken)

\* the template is missing while new_id is the id of a stored link
C25_Witness ==
    /\ call.op = "link"
    /\ call.template_id \notin DOMAIN templates0
    /\ call.template_id \notin DOMAIN links0
    /\ call.new_id \in DOMAIN links0
    /\ res = NoSuchTemplate(call.template_id)

\* C26: the order of add_template(t) and add(p), p a link of t, matters. add(p)
\* on a set that stores t, with a free link id, succeeds and leaves templates as
\* it was, t stored once; add_template(t) on a set that stores t, as it does
\* after add(p), fails with Occupied{id = t.id()} and changes nothing.
C26_OrderMatters ==
    /\ (/\ call.op = "add"
        /\ get_template(templates0, call.policy.template.id) = {call.policy.template}
        /\ call.policy.id \notin DOMAIN links0) =>
          /\ IsOk(res)
          /\ templates = templates0
          /\ {k \in DOMAIN templates : templates[k] = call.policy.template}
                = {call.policy.template.id}
    /\ (/\ call.op = "add_template"
        /\ get_template(templates0, call.template.id) = {call.template}) =>
          /\ res = Occupied(call.template.id)
          /\ Untouched

\* add_template is called with the template that an add has stored together with
\* its link, and fails
C26_Witness ==
    /\ call.op = "add_template"
    /\ get_template(templates0, call.template.id) = {call.template}
    /\ \E l \in DOMAIN links0 :
          links0[l].template = call.template /\ links0[l].env # EmptyMap
    /\ res = Occupied(call.template.id)

\* C27: link(template_id, new_id, env) with new_id = template_id never succeeds,
\* and fails with PolicyIdConflict{id = template_id} whenever the template is
\* stored and env matches its slots. A link stored under the id of its own
\* template has therefore been inserted by add or by add_static.
C27_NoSelfLink ==
    /\ (call.op = "link" /\ call.new_id = call.template_id) =>
          /\ ~IsOk(res)
          /\ (/\ call.template_id \in DOMAIN templates0
              /\ EnvMatches(templates0, call.template_id, call.values))
                => res = PolicyIdConflict(call.template_id)
    /\ \A id \in DOMAIN links \ DOMAIN links0 :
          links[id].template.id = id => call.op \in {"add", "add_static"}

\* link is called with new_id = template_id on a stored slotted template that has
\* no link yet, with a matching env
C27_Witness ==
    /\ call.op = "link"
    /\ call.new_id = call.template_id
    /\ call.template_id \in DOMAIN templates0
    /\ call.template_id \notin DOMAIN links0
    /\ templates0[call.template_id].slots # {}
    /\ EnvMatches(templates0, call.template_id, call.values)
    /\ res = PolicyIdConflict(call.template_id)

\* the sequences that yield the elements of iter in another order
Reorderings(iter) ==
    LET n == Len(iter)
    IN  {[i \in 1..n |-> iter[f[i]]] :
            f \in {g \in [1..n -> 1..n] : \A i, j \in 1..n : g[i] = g[j] => i = j}}

\* two elements of iter share a link id, or carry templates of one id that differ
Clashing(iter) ==
    \E i, j \in 1..Len(iter) :
        /\ i < j
        /\ \/ iter[i].id = iter[j].id
           \/ /\ iter[i].template.id = iter[j].template.id
              /\ iter[i].template # iter[j].template

\* C28: try_from_iter fails on a sequence exactly when two of its elements share a
\* link id or carry templates with the same id and different content; when it
\* succeeds it succeeds on every permutation of the sequence, with an equal set.
C28_OrderIndependent ==
    call.op = "try_from_iter" =>
        /\ ~IsOk(res) <=> Clashing(call.iter)
        /\ IsOk(res) =>
              \A perm \in Reorderings(call.iter) :
                  try_from_iter(perm) = Outcome(templates, links, Ok)

\* two policies of one template under different ids, collected: the other order
\* gives the same set
C28_Witness ==
    /\ call.op = "try_from_iter" /\ IsOk(res)
    /\ Len(call.iter) = 2
    /\ call.iter[1].id # call.iter[2].id
    /\ call.iter[1].template = call.iter[2].template
    /\ <<call.iter[2], call.iter[1]>> \in Reorderings(call.iter)
    /\ try_from_iter(<<call.iter[2], call.iter[1]>>) = Outcome(templates, links, Ok)

====
